---- MODULE Spec2Model ----
(***************************************************************************)
(* Heat-pump break-even calculator (MaxVoltage52/heatpump-calculator).     *)
(*                                                                         *)
(* The React component keeps an input snapshot (twelve numeric field       *)
(* texts, the table-mode flag, the COP-table text and the bins text) and   *)
(* recomputes the result record `calc` from it on every change.            *)
(*                                                                         *)
(* JavaScript numbers are modelled as extended rationals: a record         *)
(* [n, d] with d > 0 in lowest terms is the finite number n/d, and d = 0   *)
(* encodes the three non-finite doubles (n = 1: +Infinity, n = -1:         *)
(* -Infinity, n = 0: NaN).  Arithmetic is exact: binary rounding of        *)
(* doubles and the sign of zero are not modelled.  Texts are strings.        *)
(***************************************************************************)
EXTENDS Integers, Sequences, FiniteSets, TLC

\* ------------------------------------------------------------------------
\* Numbers
\* ------------------------------------------------------------------------
AbsInt(i) == IF i < 0 THEN -i ELSE i

SignInt(i) == IF i < 0 THEN -1 ELSE IF i > 0 THEN 1 ELSE 0

RECURSIVE Gcd(_, _)
Gcd(a, b) == IF b = 0 THEN a ELSE Gcd(b, a % b)

\* the number n/d (d # 0) in lowest terms with a positive denominator
Q(n, d) ==
  LET g == Gcd(AbsInt(n), AbsInt(d))
      s == IF d < 0 THEN -1 ELSE 1
  IN  [n |-> s * (n \div g), d |-> s * (d \div g)]

I(i) == [n |-> i, d |-> 1]

NaN == [n |-> 0, d |-> 0]

Infinity == [n |-> 1, d |-> 0]

NegInfinity == [n |-> -1, d |-> 0]

Zero == I(0)

One == I(1)

IsNaN(a) == a.d = 0 /\ a.n = 0

\* Number.isFinite
IsFinite(a) == a.d > 0

Neg(a) == [n |-> -a.n, d |-> a.d]

Add(a, b) ==
  IF IsNaN(a) \/ IsNaN(b) THEN NaN
  ELSE IF a.d = 0 /\ b.d = 0 THEN (IF a.n = b.n THEN a ELSE NaN)
  ELSE IF a.d = 0 THEN a
  ELSE IF b.d = 0 THEN b
  ELSE LET g == Gcd(a.d, b.d)
       IN  Q(a.n * (b.d \div g) + b.n * (a.d \div g), a.d * (b.d \div g))

Sub(a, b) == Add(a, Neg(b))

Mul(a, b) ==
  IF a.d = 0 \/ b.d = 0 THEN [n |-> SignInt(a.n) * SignInt(b.n), d |-> 0]
  ELSE LET g1 == Gcd(AbsInt(a.n), b.d)
           g2 == Gcd(AbsInt(b.n), a.d)
       IN  [n |-> (a.n \div g1) * (b.n \div g2), d |-> (a.d \div g2) * (b.d \div g1)]

\* 1/a; 1/0 is +Infinity (the zero of the model is the positive zero)
Recip(a) ==
  IF a.d = 0 THEN (IF a.n = 0 THEN NaN ELSE Zero)
  ELSE IF a.n = 0 THEN Infinity
  ELSE [n |-> SignInt(a.n) * a.d, d |-> AbsInt(a.n)]

Div(a, b) == Mul(a, Recip(b))

\* n1/d1 < n2/d2 for positive denominators, by integer parts and then the
\* reciprocals of the fractional parts (no product is formed)
RECURSIVE LtFrac(_, _, _, _)
LtFrac(n1, d1, n2, d2) ==
  LET q1 == n1 \div d1
      q2 == n2 \div d2
      r1 == n1 % d1
      r2 == n2 % d2
  IN  IF q1 # q2 THEN q1 < q2
      ELSE IF r2 = 0 THEN FALSE
      ELSE IF r1 = 0 THEN TRUE
      ELSE LtFrac(d2, r2, d1, r1)

\* IEEE comparisons: every comparison with NaN is false
Lt(a, b) ==
  IF IsNaN(a) \/ IsNaN(b) THEN FALSE
  ELSE IF a.d = 0 \/ b.d = 0
       THEN (IF a.d = 0 /\ b.d = 0 THEN a.n < b.n
             ELSE IF a.d = 0 THEN a.n < 0 ELSE b.n > 0)
  ELSE LtFrac(a.n, a.d, b.n, b.d)

Le(a, b) == ~IsNaN(a) /\ ~IsNaN(b) /\ ~Lt(b, a)

Gt(a, b) == Lt(b, a)

Ge(a, b) == Le(b, a)

AbsQ(a) == [n |-> AbsInt(a.n), d |-> a.d]

\* a || b on numbers: 0 and NaN are falsy
OrElse(a, b) == IF IsNaN(a) \/ (a.d > 0 /\ a.n = 0) THEN b ELSE a

\* null, for the nullable numeric fields of the result
Null == [n |-> 0, d |-> -1]

\* truthiness of a number-or-null: null, 0 and NaN are falsy
Truthy(a) == a # Null /\ ~IsNaN(a) /\ ~(a.d > 0 /\ a.n = 0)

MathMin(a, b) == IF IsNaN(a) \/ IsNaN(b) THEN NaN ELSE IF Lt(b, a) THEN b ELSE a

MathMax(a, b) == IF IsNaN(a) \/ IsNaN(b) THEN NaN ELSE IF Lt(a, b) THEN b ELSE a

\* Math.round: the nearest integer, halves toward +Infinity
MathRound(a) ==
  IF a.d <= 0 THEN a
  ELSE LET q == a.n \div a.d
           r == a.n % a.d
       IN  I(IF r >= a.d - r THEN q + 1 ELSE q)

RECURSIVE Pow10(_)
Pow10(k) == IF k = 0 THEN 1 ELSE 10 * Pow10(k - 1)

\* the integer nearest to (m + r/d) * 10^k, halves upward (0 <= r < d)
RECURSIVE ScaleRound(_, _, _, _)
ScaleRound(m, r, d, k) ==
  IF k = 0 THEN (IF r >= d - r THEN m + 1 ELSE m)
  ELSE ScaleRound(10 * m + ((10 * r) \div d), (10 * r) % d, d, k - 1)

\* +a.toFixed(k): the nearest multiple of 10^-k, halves away from zero
ToFixed(a, k) ==
  IF a.d <= 0 THEN a
  ELSE Q(SignInt(a.n) * ScaleRound(AbsInt(a.n) \div a.d, AbsInt(a.n) % a.d, a.d, k),
         Pow10(k))

\* ------------------------------------------------------------------------
\* Texts
\* ------------------------------------------------------------------------
Digits == {"0", "1", "2", "3", "4", "5", "6", "7", "8", "9"}

DigitVal(c) ==
  CASE c = "0" -> 0 [] c = "1" -> 1 [] c = "2" -> 2 [] c = "3" -> 3
    [] c = "4" -> 4 [] c = "5" -> 5 [] c = "6" -> 6 [] c = "7" -> 7
    [] c = "8" -> 8 [] c = "9" -> 9

WhiteSpace == {" ", "\n"}

CharAt(s, i) == SubSeq(s, i, i)

RECURSIVE TrimStart(_)
TrimStart(s) ==
  IF s # "" /\ Head(s) \in WhiteSpace THEN TrimStart(Tail(s)) ELSE s

RECURSIVE TrimEnd(_)
TrimEnd(s) ==
  IF s # "" /\ CharAt(s, Len(s)) \in WhiteSpace
  THEN TrimEnd(SubSeq(s, 1, Len(s) - 1)) ELSE s

\* String.prototype.trim
Trim(s) == TrimEnd(TrimStart(s))

\* String.prototype.split on a set of one-character separators
RECURSIVE SplitAcc(_, _, _)
SplitAcc(s, seps, cur) ==
  IF s = "" THEN <<cur>>
  ELSE IF Head(s) \in seps THEN <<cur>> \o SplitAcc(Tail(s), seps, "")
  ELSE SplitAcc(Tail(s), seps, cur \o Head(s))

Split(s, seps) == SplitAcc(s, seps, "")

AllDigits(s) == \A i \in 1..Len(s) : CharAt(s, i) \in Digits

RECURSIVE DigitsValue(_, _)
DigitsValue(s, acc) ==
  IF s = "" THEN acc ELSE DigitsValue(Tail(s), 10 * acc + DigitVal(Head(s)))

\* the value of <ip>.<fp> given as digit strings
DecimalValue(ip, fp) ==
  IF ~AllDigits(ip) \/ ~AllDigits(fp) \/ Len(ip) + Len(fp) = 0 THEN NaN
  ELSE Q(DigitsValue(ip, 0) * Pow10(Len(fp)) + DigitsValue(fp, 0), Pow10(Len(fp)))

\* an unsigned decimal literal split at ".": digits, optionally one "."
\* ("5", "5.", ".5", "5.5")
LiteralParts(parts) ==
  IF Len(parts) > 2 THEN NaN
  ELSE DecimalValue(parts[1], IF Len(parts) = 2 THEN parts[2] ELSE "")

UnsignedLiteral(s) == LiteralParts(Split(s, {"."}))

\* Number of a trimmed text
NumberTrimmed(t) ==
  IF t = "" THEN Zero
  ELSE IF Head(t) = "-" THEN Neg(UnsignedLiteral(Tail(t)))
  ELSE IF Head(t) = "+" THEN UnsignedLiteral(Tail(t))
  ELSE UnsignedLiteral(t)

\* Number(text) over the model's alphabet (digits, sign, ".", blanks and
\* characters that belong to no numeric literal): blank text is 0, a signed
\* decimal literal is its value, anything else is NaN
Number(s) == NumberTrimmed(Trim(s))

\* ------------------------------------------------------------------------
\* Helpers of the component
\* ------------------------------------------------------------------------
finiteOr(n, fallback) == IF IsFinite(n) THEN n ELSE fallback

toNumber(value, fallback) == finiteOr(Number(value), fallback)

\* Array.prototype.sort with comparator a.x - b.x (stable): insertion sort
RECURSIVE InsertByX(_, _)
InsertByX(sorted, p) ==
  IF sorted = <<>> THEN <<p>>
  ELSE IF Lt(p.x, Head(sorted).x) THEN <<p>> \o sorted
  ELSE <<Head(sorted)>> \o InsertByX(Tail(sorted), p)

RECURSIVE SortByX(_, _)
SortByX(ps, acc) ==
  IF ps = <<>> THEN acc ELSE SortByX(Tail(ps), InsertByX(acc, Head(ps)))

\* [a, b] = pair.split(":").map(trim) -> {x: Number(a), y: Number(b)}; a
\* missing b is undefined and Number(undefined) is NaN
PairOfParts(parts) ==
  [x |-> Number(parts[1]),
   y |-> IF Len(parts) >= 2 THEN Number(parts[2]) ELSE NaN]

PairOf(item) == PairOfParts(Split(item, {":"}))

TrimAll(items) == [i \in 1..Len(items) |-> Trim(items[i])]

Pairs(items) == [i \in 1..Len(items) |-> PairOf(items[i])]

NonEmpty(s) == s # ""

FinitePair(p) == IsFinite(p.x) /\ IsFinite(p.y)

\* parsePairs without the sort
parsePairsUnsorted(text) ==
  SelectSeq(Pairs(SelectSeq(TrimAll(Split(text, {"\n", ","})), NonEmpty)), FinitePair)

parsePairs(text) ==
  SortByX(SelectSeq(Pairs(SelectSeq(TrimAll(Split(text, {"\n", ","})), NonEmpty)),
                    FinitePair), <<>>)

\* the for loop of interpCOP from index i (1-based) on
RECURSIVE interpScan(_, _, _)
\* interpScan with the upper y added whole instead of the y difference
interpScanNoDelta(table, t, i) ==
  IF i > Len(table) - 1 THEN table[Len(table)].y
  ELSE IF Ge(t, table[i].x) /\ Le(t, table[i + 1].x)
       THEN Add(table[i].y,
                Mul(Div(Sub(t, table[i].x), OrElse(Sub(table[i + 1].x, table[i].x), One)),
                    table[i + 1].y))
       ELSE interpScan(table, t, i + 1)

interpScan(table, t, i) ==
  IF i > Len(table) - 1 THEN table[Len(table)].y
  ELSE IF Ge(t, table[i].x) /\ Le(t, table[i + 1].x)
       THEN Add(table[i].y,
                Mul(Div(Sub(t, table[i].x), OrElse(Sub(table[i + 1].x, table[i].x), One)),
                    Sub(table[i + 1].y, table[i].y)))
       ELSE interpScan(table, t, i + 1)

\* interpCOP with another default for the empty table
interpCOPDefaultTwo(table, t) ==
  IF Len(table) = 0 THEN I(2)
  ELSE IF Le(t, table[1].x) THEN table[1].y
  ELSE IF Ge(t, table[Len(table)].x) THEN table[Len(table)].y
  ELSE interpScan(table, t, 1)

\* interpCOP with the upper bound tested before the lower one
interpCOPUpperFirst(table, t) ==
  IF Len(table) = 0 THEN Q(22, 10)
  ELSE IF Ge(t, table[Len(table)].x) THEN table[Len(table)].y
  ELSE IF Le(t, table[1].x) THEN table[1].y
  ELSE interpScan(table, t, 1)

interpCOP(table, t) ==
  IF Len(table) = 0 THEN Q(22, 10)
  ELSE IF Le(t, table[1].x) THEN table[1].y
  ELSE IF Ge(t, table[Len(table)].x) THEN table[Len(table)].y
  ELSE interpScan(table, t, 1)

RECURSIVE SumY(_)
SumY(bins) ==
  IF bins = <<>> THEN Zero
  ELSE Add(SumY(SubSeq(bins, 1, Len(bins) - 1)), bins[Len(bins)].y)

\* scaleBins without the factor 100
scaleBinsToOne(bins, total) ==
  [i \in 1..Len(bins) |-> [x |-> bins[i].x, y |-> Div(bins[i].y, total)]]

scaleBins(bins, total) ==
  [i \in 1..Len(bins) |->
     [x |-> bins[i].x, y |-> Div(Mul(bins[i].y, I(100)), total)]]

normalizeBins(bins) == scaleBins(bins, OrElse(SumY(bins), One))

\* ------------------------------------------------------------------------
\* Defaults
\* ------------------------------------------------------------------------
\* The field names and the afue, heatMMBtu and seasonalCOP values are the
\* source's.
\* The other values and the two default tables are replaced by short ones of
\* the same shape, so that exact arithmetic on them stays within TLC's
\* integers (the source profile: 97300 kWh, 3.331 + 1.767 + 6.062 / 2.924
\* cents, 0.52 + 0.2134 $/therm, 10354 and 2600 $, 15-row tables).
DEFAULTS ==
  [kwhBase |-> I(100), supplyC |-> I(3), txC |-> I(2), dfcNon |-> I(8),
   dfcEH |-> I(5), gasSupply |-> Q(1, 2), gasDist |-> Q(45, 100),
   afue |-> Q(95, 100), heatMMBtu |-> Q(75, 2), seasonalCOP |-> Q(22, 10),
   gross |-> I(100), credits |-> I(26)]

Fields == DOMAIN DEFAULTS

DEFAULT_COP == "2:4\n0:2"

DEFAULT_BINS == "2:1\n0:1"

RECURSIVE NatToString(_)
NatToString(i) ==
  LET c == CHOOSE ch \in Digits : DigitVal(ch) = i % 10
  IN  IF i < 10 THEN c ELSE NatToString(i \div 10) \o c

\* the decimal digits of r/d, 0 <= r < d, d a product of 2s and 5s
RECURSIVE FracToString(_, _)
FracToString(r, d) ==
  IF r = 0 THEN ""
  ELSE NatToString((10 * r) \div d) \o FracToString((10 * r) % d, d)

\* String(number) for a finite number with a terminating decimal expansion
String(a) ==
  LET m == AbsInt(a.n)
  IN  (IF a.n < 0 THEN "-" ELSE "") \o NatToString(m \div a.d)
        \o (IF m % a.d = 0 THEN "" ELSE "." \o FracToString(m % a.d, a.d))

\* the useState initialisers, and what reset() sets
InitialInputs == [k \in Fields |-> String(DEFAULTS[k])]

\* ------------------------------------------------------------------------
\* calc
\* ------------------------------------------------------------------------
\* kWh per MMBtu of delivered heat at COP 1
kWhPerMMBtu == Q(293071, 1000)

\* MMBtu per therm
MMBtuPerTherm == Q(1, 10)

ParseInputs(inputs) == [k \in Fields |-> toNumber(inputs[k], DEFAULTS[k])]

gasAllIn(p) == Add(p.gasSupply, p.gasDist)

allInNon(p) == Div(Add(Add(p.supplyC, p.txC), p.dfcNon), I(100))

allInEH(p) == Div(Add(Add(p.supplyC, p.txC), p.dfcEH), I(100))

baselineElec(p) == Mul(p.kwhBase, allInNon(p))

\* baselineGas without the conversion from MMBtu to therms
baselineGasNoTherms(p) == Mul(Div(p.heatMMBtu, p.afue), gasAllIn(p))

baselineGas(p) == Mul(Div(Div(p.heatMMBtu, MMBtuPerTherm), p.afue), gasAllIn(p))

baseline(p) == Add(baselineElec(p), baselineGas(p))

costGasPerMMBtu(p) == Mul(Div(Div(One, MMBtuPerTherm), p.afue), gasAllIn(p))

\* the rates every later step reads
Rates(p) ==
  [allInEH |-> allInEH(p), baseline |-> baseline(p),
   costGasPerMMBtu |-> costGasPerMMBtu(p)]

\* hpServes with the comparison reversed
hpServesDearer(costHPperMMBtu, costGas) == Ge(costHPperMMBtu, costGas)

\* hpServes with a tie going to gas
hpServesStrict(costHPperMMBtu, costGas) == Lt(costHPperMMBtu, costGas)

\* the hybrid dispatch test of one bin: true when the heat pump serves it
hpServes(costHPperMMBtu, costGas) == Le(costHPperMMBtu, costGas)

\* the locals of one iteration of the bin loop, from kwhPerMMBtu on
BinCosts(r, b, mmbtu, cop, kwhPerMMBtu, costHPperMMBtu) ==
  [t |-> b.x, pct |-> b.y, mmbtu |-> mmbtu, cop |-> cop,
   kwhPerMMBtu |-> kwhPerMMBtu, costHPperMMBtu |-> costHPperMMBtu,
   hp |-> hpServes(costHPperMMBtu, r.costGasPerMMBtu)]

BinKWh(r, b, mmbtu, cop, kwhPerMMBtu) ==
  BinCosts(r, b, mmbtu, cop, kwhPerMMBtu, Mul(kwhPerMMBtu, r.allInEH))

\* the locals of one iteration of the bin loop
BinLocals(p, r, b, cop) ==
  BinKWh(r, b, Mul(p.heatMMBtu, Div(b.y, I(100))), cop, Div(kWhPerMMBtu, cop))

\* the effect of one iteration on the accumulators and the matrix
BinStep(r, acc, l) ==
  [hpKWh |-> Add(acc.hpKWh, Mul(l.mmbtu, l.kwhPerMMBtu)),
   costHPsum |-> IF l.hp THEN Add(acc.costHPsum, Mul(l.mmbtu, l.costHPperMMBtu))
                 ELSE acc.costHPsum,
   costGASsum |-> IF l.hp THEN acc.costGASsum
                  ELSE Add(acc.costGASsum, Mul(l.mmbtu, r.costGasPerMMBtu)),
   hybridGasMMBtu |-> IF l.hp THEN acc.hybridGasMMBtu
                      ELSE Add(acc.hybridGasMMBtu, l.mmbtu),
   matrix |-> Append(acc.matrix,
                [t |-> l.t, pct |-> ToFixed(l.pct, 2), cop |-> ToFixed(l.cop, 2),
                 hpCost |-> ToFixed(l.costHPperMMBtu, 2),
                 gasCost |-> ToFixed(r.costGasPerMMBtu, 2),
                 cheaper |-> IF l.hp THEN "HP" ELSE "Gas"])]

\* the bin loop from bin i on
RECURSIVE BinLoop(_, _, _, _, _, _)
BinLoop(p, r, table, bins, i, acc) ==
  IF i > Len(bins) THEN acc
  ELSE BinLoop(p, r, table, bins, i + 1,
               BinStep(r, acc, BinLocals(p, r, bins[i], interpCOP(table, bins[i].x))))

\* Accumulate with the bin loop run in either mode
AccumulateBinsAlways(p, r, useCopTable, table, bins) ==
  BinLoop(p, r, table, bins, 1,
          [hpKWh |-> Zero, costHPsum |-> Zero, costGASsum |-> Zero,
           hybridGasMMBtu |-> Zero, matrix |-> <<>>])

\* hpKWh, the hybrid accumulators and the matrix after the if (useCopTable)
Accumulate(p, r, useCopTable, table, bins) ==
  IF useCopTable
  THEN BinLoop(p, r, table, bins, 1,
               [hpKWh |-> Zero, costHPsum |-> Zero, costGASsum |-> Zero,
                hybridGasMMBtu |-> Zero, matrix |-> <<>>])
  ELSE [hpKWh |-> Div(Mul(p.heatMMBtu, kWhPerMMBtu), p.seasonalCOP),
        costHPsum |-> Zero, costGASsum |-> Zero, hybridGasMMBtu |-> Zero,
        matrix |-> <<>>]

\* paybackAllOf without the savings guard
paybackAllUnguarded(net, savingsAll) == Div(net, savingsAll)

\* payback of the all-electric scenario before rounding
paybackAllOf(net, savingsAll) ==
  IF Gt(savingsAll, Zero) THEN Div(net, savingsAll) ELSE Null

\* payback of the hybrid scenario before rounding
paybackHybridOf(net, savingsHybrid) ==
  IF Truthy(savingsHybrid) /\ Gt(savingsHybrid, Zero)
  THEN Div(net, savingsHybrid) ELSE Null

\* payback ? Number(payback.toFixed(1)) : null
paybackOut(payback) == IF Truthy(payback) THEN ToFixed(payback, 1) ELSE Null

hpCostAt(r, table, t) == Mul(Div(kWhPerMMBtu, interpCOP(table, t)), r.allInEH)

\* signChange with the second test of the first disjunct reversed
signChangeLoose(prevDiff, diff) ==
  (Le(prevDiff, Zero) /\ Le(diff, Zero)) \/ (Ge(prevDiff, Zero) /\ Le(diff, Zero))

signChange(prevDiff, diff) ==
  (Le(prevDiff, Zero) /\ Ge(diff, Zero)) \/ (Ge(prevDiff, Zero) /\ Le(diff, Zero))

\* the fraction of the step from prevT to t at which diff crosses zero
crossFrac(prevDiff, diff) ==
  IF Lt(AbsQ(Sub(diff, prevDiff)), Q(1, 1000000000)) THEN Zero
  ELSE Div(Sub(Zero, prevDiff), Sub(diff, prevDiff))

\* the crossover temperature between prevT and t, before toFixed(1)
crossoverBetween(prevT, prevDiff, t, diff) ==
  Add(prevT, Mul(crossFrac(prevDiff, diff), Sub(t, prevT)))

\* the number of grid points t = tMin, tMin + 1, ... with t <= tMax
gridSteps(w) == IF Ge(w, Zero) THEN (w.n \div w.d) + 1 ELSE 0

gridCount(tMin, tMax) == gridSteps(Sub(tMax, tMin))

\* the value of the loop variable t in iteration i = 1, 2, ...
gridT(tMin, i) == Add(tMin, I(i - 1))

\* the iteration whose t is prevT in iteration i (iteration 1 starts with
\* prevT = tMin, its own t)
prevOf(i) == IF i = 1 THEN 1 ELSE i - 1

hpSeries(r, table, tMin, N) == [i \in 1..N |-> hpCostAt(r, table, gridT(tMin, i))]

diffSeries(hp, gas) == [i \in 1..Len(hp) |-> Sub(hp[i], gas)]

\* the iterations at which the loop's if would fire
breaksOf(diff) == {i \in 1..Len(diff) : signChange(diff[prevOf(i)], diff[i])}

SetMin(S) == CHOOSE i \in S : \A j \in S : i <= j

\* the loop's outcome when it ends in iteration stop, by break (found) or
\* by running off the grid: every iteration pushed one series point
scanEnd(tMin, gas, hp, diff, stop, found) ==
  [temp |-> IF found
            THEN ToFixed(crossoverBetween(gridT(tMin, prevOf(stop)), diff[prevOf(stop)],
                                          gridT(tMin, stop), diff[stop]), 1)
            ELSE Null,
   series |-> [i \in 1..stop |-> [t |-> gridT(tMin, i), hp |-> hp[i], gas |-> gas]]]

scanBreaks(tMin, gas, hp, diff, breaks) ==
  scanEnd(tMin, gas, hp, diff, IF breaks = {} THEN Len(hp) ELSE SetMin(breaks), breaks # {})

scanDiffs(tMin, gas, hp, diff) == scanBreaks(tMin, gas, hp, diff, breaksOf(diff))

scanHp(tMin, gas, hp) == scanDiffs(tMin, gas, hp, diffSeries(hp, gas))

\* the scan loop: iteration i compares grid point gridT(i) with the previous
\* one and breaks at the first sign change
crossoverScan(r, table, tMin, tMax) ==
  scanHp(tMin, r.costGasPerMMBtu, hpSeries(r, table, tMin, gridCount(tMin, tMax)))

scanMin(table) == MathMin(I(-20), table[1].x)

scanMax(table) == MathMax(I(65), table[Len(table)].x)

NoteProvide == "Provide a COP table to compute a precise crossover temperature"

noteOf(diffAtMin, diffAtMax) ==
  IF Lt(diffAtMin, Zero) /\ Lt(diffAtMax, Zero) THEN "HP cheaper at all temps"
  ELSE IF Gt(diffAtMin, Zero) /\ Gt(diffAtMax, Zero) THEN "Gas cheaper at all temps"
  ELSE "Crossover outside modeled range"

withNote(scan, diffAtMin, diffAtMax) ==
  [temp |-> scan.temp,
   note |-> IF scan.temp = Null THEN noteOf(diffAtMin, diffAtMax) ELSE "",
   series |-> scan.series]

\* crossoverTemp, crossoverNote and crossoverSeries; table is parsePairs(copText)
crossover(r, useCopTable, table) ==
  IF useCopTable
  THEN IF Len(table) > 1
       THEN withNote(crossoverScan(r, table, scanMin(table), scanMax(table)),
                     Sub(hpCostAt(r, table, scanMin(table)), r.costGasPerMMBtu),
                     Sub(hpCostAt(r, table, scanMax(table)), r.costGasPerMMBtu))
       ELSE [temp |-> Null, note |-> "", series |-> <<>>]
  ELSE [temp |-> Null, note |-> NoteProvide, series |-> <<>>]

\* the locals of calc before rounding, collected
Collect(p, r, useCopTable, table, bins, acc, allElectric, hybrid, savingsAll, savingsHybrid, net, gasHeatCost, cross) ==
  [p |-> p, useCopTable |-> useCopTable, table |-> table, bins |-> bins,
   allInEH |-> r.allInEH, costGasPerMMBtu |-> r.costGasPerMMBtu,
   baseline |-> r.baseline, hpKWh |-> acc.hpKWh, hybrid |-> hybrid,
   costHPsum |-> acc.costHPsum, costGASsum |-> acc.costGASsum,
   hybridGasMMBtu |-> acc.hybridGasMMBtu, hybridHPkWh |-> Zero,
   matrix |-> acc.matrix, allElectric |-> allElectric,
   savingsAll |-> savingsAll, savingsHybrid |-> savingsHybrid, net |-> net,
   paybackAll |-> paybackAllOf(net, savingsAll),
   paybackHybrid |-> paybackHybridOf(net, savingsHybrid),
   dfcSavings |-> Mul(p.kwhBase, Div(Sub(p.dfcNon, p.dfcEH), I(100))),
   gasHeatCost |-> gasHeatCost,
   hpHeatCost |-> Mul(acc.hpKWh, r.allInEH),
   crossoverTemp |-> cross.temp, crossoverNote |-> cross.note,
   crossoverSeries |-> cross.series]

Savings(p, r, useCopTable, table, bins, acc, allElectric, hybrid) ==
  Collect(p, r, useCopTable, table, bins, acc, allElectric, hybrid,
          Sub(r.baseline, allElectric),
          IF hybrid # Null THEN Sub(r.baseline, hybrid) ELSE Null,
          Sub(p.gross, p.credits),
          Mul(Div(Div(p.heatMMBtu, MMBtuPerTherm), p.afue), gasAllIn(p)),
          crossover(r, useCopTable, table))

\* Scenarios with the hybrid cost set in either mode
ScenariosHybridAlways(p, r, useCopTable, table, bins, acc) ==
  Savings(p, r, useCopTable, table, bins, acc,
          Mul(Add(p.kwhBase, acc.hpKWh), r.allInEH),
          Add(Add(Mul(p.kwhBase, r.allInEH), acc.costHPsum), acc.costGASsum))

Scenarios(p, r, useCopTable, table, bins, acc) ==
  Savings(p, r, useCopTable, table, bins, acc,
          Mul(Add(p.kwhBase, acc.hpKWh), r.allInEH),
          IF useCopTable
          THEN Add(Add(Mul(p.kwhBase, r.allInEH), acc.costHPsum), acc.costGASsum)
          ELSE Null)

Dispatch(p, r, useCopTable, table, bins) ==
  Scenarios(p, r, useCopTable, table, bins, Accumulate(p, r, useCopTable, table, bins))

Parsed(p, useCopTable, table, bins) == Dispatch(p, Rates(p), useCopTable, table, bins)

\* the locals of calc before rounding
Locals(in, useCopTable, cop, bins) ==
  Parsed(ParseInputs(in), useCopTable, parsePairs(cop), normalizeBins(parsePairs(bins)))

roundOrNull(a) == IF a # Null THEN MathRound(a) ELSE Null

\* the record calc returns
Returned(l) ==
  [baseline |-> MathRound(l.baseline),
   allElectric |-> MathRound(l.allElectric),
   hybrid |-> roundOrNull(l.hybrid),
   hybridGasMMBtu |-> ToFixed(l.hybridGasMMBtu, 1),
   hybridHPkWh |-> MathRound(l.hybridHPkWh),
   savingsAll |-> MathRound(l.savingsAll),
   savingsHybrid |-> roundOrNull(l.savingsHybrid),
   paybackAll |-> paybackOut(l.paybackAll),
   paybackHybrid |-> paybackOut(l.paybackHybrid),
   dfcSavings |-> MathRound(l.dfcSavings),
   gasHeatCost |-> MathRound(l.gasHeatCost),
   hpHeatCost |-> MathRound(l.hpHeatCost),
   fuelSwitchSavings |-> MathRound(Sub(l.gasHeatCost, l.hpHeatCost)),
   chart |-> <<[name |-> "Baseline (Gas+AC)", cost |-> MathRound(l.baseline)],
               [name |-> "All-Electric HP", cost |-> MathRound(l.allElectric)]>>
             \o (IF l.hybrid # Null
                 THEN <<[name |-> "Hybrid (cheapest)", cost |-> MathRound(l.hybrid)]>>
                 ELSE <<>>),
   crossoverTemp |-> l.crossoverTemp,
   crossoverNote |-> l.crossoverNote,
   crossoverSeries |-> l.crossoverSeries,
   matrix |-> l.matrix]

Calc(in, useCopTableFlag, cop, bins) ==
  Returned(Locals(in, useCopTableFlag, cop, bins))

\* ------------------------------------------------------------------------
\* The component as a state machine
\* ------------------------------------------------------------------------
\* inputs, useCopTable, copText, binsText: the component's state; calc: the
\* memoised result; locals: the unrounded locals of the run of calc that
\* produced it; edits: the number of input events so far
\* lastReset tells whether the last event was a reset ("" when it was not)
\* and whether the snapshot it replaced was the start-up one ("clean") or an
\* edited one ("edited")
VARIABLES inputs, useCopTable, copText, binsText, calc, locals, edits, lastReset

vars == <<inputs, useCopTable, copText, binsText, calc, locals, edits, lastReset>>

\* the number of input events explored from start-up
MaxEdits == 2

\* the texts typed into each numeric field
FieldTexts ==
  [kwhBase |-> {"0"}, supplyC |-> {"0"}, txC |-> {"x"}, dfcNon |-> {"0"},
   dfcEH |-> {"9", "-5"}, gasSupply |-> {"-0.45", "-1.5"}, gasDist |-> {"0.5"},
   afue |-> {"", "0"}, heatMMBtu |-> {"-1", " "},
   seasonalCOP |-> {"0", "2.2x"}, gross |-> {"26", ""}, credits |-> {"100"}]

\* the texts typed into the COP-table box
CopTexts ==
  {"", "0:2.93071", "0:2.93071,1:2.93071", "0:0,1:4", "0:1,0:4", "0:-4,1:-2,1:-1,2:4",
   "0:4,65:4,65.5:2"}

\* the texts typed into the bins box
BinsTexts == {"", "0:-1,2:3", "0:0,2:1", "0:1,2:-1", "0:1, 1:1\n2:2"}

\* deps without binsText
depsWithoutBins(in, u, cop, bins) == <<in, u, cop>>

\* the dependency list of the useMemo that holds calc
deps(in, u, cop, bins) == <<in, u, cop, bins>>

\* useMemo: the callback runs on the new snapshot when a dependency changed,
\* otherwise the memoised value is kept
Recompute ==
  IF deps(inputs', useCopTable', copText', binsText')
       # deps(inputs, useCopTable, copText, binsText)
  THEN /\ locals' = Locals(inputs', useCopTable', copText', binsText')
       /\ calc' = Returned(locals')
  ELSE UNCHANGED <<calc, locals>>

Init ==
  /\ inputs = InitialInputs
  /\ useCopTable = TRUE
  /\ copText = DEFAULT_COP
  /\ binsText = DEFAULT_BINS
  /\ locals = Locals(InitialInputs, TRUE, DEFAULT_COP, DEFAULT_BINS)
  /\ calc = Returned(locals)
  /\ edits = 0
  /\ lastReset = ""

\* onChange of a numeric field: upd(k, e.target.value), then calc is recomputed
upd(k, v) ==
  /\ edits < MaxEdits
  /\ inputs' = [inputs EXCEPT ![k] = v]
  /\ UNCHANGED <<useCopTable, copText, binsText>>
  /\ Recompute
  /\ edits' = edits + 1
  /\ lastReset' = ""

\* onCheckedChange of the switch: the checkbox reports its flipped state
setUseCopTable ==
  /\ edits < MaxEdits
  /\ useCopTable' = ~useCopTable
  /\ UNCHANGED <<inputs, copText, binsText>>
  /\ Recompute
  /\ edits' = edits + 1
  /\ lastReset' = ""

setCopText(v) ==
  /\ edits < MaxEdits
  /\ copText' = v
  /\ UNCHANGED <<inputs, useCopTable, binsText>>
  /\ Recompute
  /\ edits' = edits + 1
  /\ lastReset' = ""

setBinsText(v) ==
  /\ edits < MaxEdits
  /\ binsText' = v
  /\ UNCHANGED <<inputs, useCopTable, copText>>
  /\ Recompute
  /\ edits' = edits + 1
  /\ lastReset' = ""

atStartUp(in, u, cop, bins) ==
  in = InitialInputs /\ u /\ cop = DEFAULT_COP /\ bins = DEFAULT_BINS

resetKind == IF atStartUp(inputs, useCopTable, copText, binsText) THEN "clean" ELSE "edited"

\* reset that restores the numeric fields only
resetFieldsOnly ==
  /\ edits < MaxEdits
  /\ inputs' = InitialInputs
  /\ UNCHANGED <<useCopTable, copText, binsText>>
  /\ Recompute
  /\ edits' = edits + 1
  /\ lastReset' = resetKind

reset ==
  /\ edits < MaxEdits
  /\ inputs' = InitialInputs
  /\ useCopTable' = TRUE
  /\ copText' = DEFAULT_COP
  /\ binsText' = DEFAULT_BINS
  /\ Recompute
  /\ edits' = edits + 1
  /\ lastReset' = resetKind

Edit == \E k \in Fields : \E v \in FieldTexts[k] : upd(k, v)

EditCop == \E v \in CopTexts : setCopText(v)

EditBins == \E v \in BinsTexts : setBinsText(v)

Next == Edit \/ setUseCopTable \/ EditCop \/ EditBins \/ reset

Spec == Init /\ [][Next]_vars

\* ------------------------------------------------------------------------
\* Typing a bins list, item by item, under an empty COP table
\* ------------------------------------------------------------------------
\* the number of items typed into the bins box
MaxItems == 2

\* the items typed: well-formed pairs, padded ones, pairs with an empty or
\* non-numeric side, an item without a colon, one with two colons, nothing
Items ==
  {"1:2", "0:4", " 2 : 3 ", "0:-2", "0:0", "5:", ":3", "7", "x:1", "1:2:3", ""}

Separators == {",", "\n"}

InitTyping ==
  /\ inputs = InitialInputs
  /\ useCopTable = TRUE
  /\ copText = ""
  /\ binsText = ""
  /\ locals = Locals(InitialInputs, TRUE, "", "")
  /\ calc = Returned(locals)
  /\ edits = 0
  /\ lastReset = ""

\* onChange of the bins box with one more item typed after a separator
typeItem(sep, item) ==
  /\ edits < MaxItems
  /\ binsText' = binsText \o sep \o item
  /\ UNCHANGED <<inputs, useCopTable, copText>>
  /\ Recompute
  /\ edits' = edits + 1
  /\ lastReset' = ""

TypeBins == \E sep \in Separators : \E item \in Items : typeItem(sep, item)

NextTyping == TypeBins

TypingSpec == InitTyping /\ [][NextTyping]_vars

\* ------------------------------------------------------------------------
\* Properties of the result
\* ------------------------------------------------------------------------
\* a numeric field of the result holds a finite number or null
finiteOrNull(a) == a = Null \/ IsFinite(a)

NumericFields ==
  {"baseline", "allElectric", "hybrid", "hybridGasMMBtu", "hybridHPkWh",
   "savingsAll", "savingsHybrid", "paybackAll", "paybackHybrid", "dfcSavings",
   "gasHeatCost", "hpHeatCost", "fuelSwitchSavings", "crossoverTemp"}

rowFinite(row) ==
  /\ IsFinite(row.t) /\ IsFinite(row.pct) /\ IsFinite(row.cop)
  /\ IsFinite(row.hpCost) /\ IsFinite(row.gasCost)

pointFinite(pt) == IsFinite(pt.t) /\ IsFinite(pt.hp) /\ IsFinite(pt.gas)

allFinite(c) ==
  /\ \A f \in NumericFields : finiteOrNull(c[f])
  /\ \A i \in 1..Len(c.chart) : IsFinite(c.chart[i].cost)
  /\ \A i \in 1..Len(c.matrix) : rowFinite(c.matrix[i])
  /\ \A i \in 1..Len(c.crossoverSeries) : pointFinite(c.crossoverSeries[i])

\* C1: for every input snapshot, no numeric field of the result, no matrix
\* row and no crossover-series point is NaN or infinite.
C1_NoNaNOrInfinity == allFinite(calc)

\* a field text is absent or does not parse to a finite number
unusable(text) == text = "" \/ ~IsFinite(Number(text))

defaulted(in, p) == \A k \in Fields : unusable(in[k]) => p[k] = DEFAULTS[k]

\* C2: every numeric field whose text is empty or does not parse to a finite
\* number is replaced by that field's default before the calculation.
C2_AbsentFieldsDefault == defaulted(inputs, locals.p)

\* the heat amount of bin i: heatMMBtu * share
binHeat(l, i) == Mul(l.p.heatMMBtu, Div(l.bins[i].y, I(100)))

heatNonNegative(l) == \A i \in 1..Len(l.bins) : Ge(binHeat(l, i), Zero)

gasBinExists(c) == \E i \in 1..Len(c.matrix) : c.matrix[i].cheaper = "Gas"

hpBinExists(c) == \E i \in 1..Len(c.matrix) : c.matrix[i].cheaper = "HP"

hybridLeAllElectric(l) == l.useCopTable => Le(l.hybrid, l.allElectric)

\* C3 as stated: in table mode the unrounded hybrid cost is less than or equal
\* to the unrounded all-electric cost, for every input snapshot.
C3_HybridLeAllElectricAlways == hybridLeAllElectric(locals)

hybridNotAboveAllElectric(l) ==
  (l.useCopTable /\ heatNonNegative(l)) => ~Gt(l.hybrid, l.allElectric)

\* C3 amended: in table mode, when no bin's heat amount heatMMBtu * share is
\* negative, the unrounded hybrid cost is never greater than the unrounded
\* all-electric cost.
C3_HybridNotAboveAllElectric == hybridNotAboveAllElectric(locals)

mixedDispatchCheaper(l, c) ==
  /\ l.useCopTable /\ heatNonNegative(l)
  /\ gasBinExists(c) /\ hpBinExists(c)
  /\ Lt(l.hybrid, l.allElectric) /\ l.bins # normalizeBins(parsePairs(DEFAULT_BINS))

\* a snapshot whose bins go partly to gas and partly to the heat pump, with
\* the hybrid cost strictly below the all-electric cost
C3_Witness == mixedDispatchCheaper(locals, calc)

hybridLeBaseline(l) ==
  l.useCopTable =>
    /\ Le(l.hybrid, l.baseline)
    /\ Le(l.hybrid, MathMin(l.allElectric, l.baseline))

\* C4 as stated: in table mode the unrounded hybrid cost does not exceed the
\* baseline cost, so hybrid <= min(allElectric, baseline), for every input
\* snapshot.
C4_HybridLeBaselineAlways == hybridLeBaseline(locals)

baselinePreconditions(l) ==
  /\ l.useCopTable /\ heatNonNegative(l)
  /\ Ge(l.dfcSavings, Zero) /\ Ge(l.gasHeatCost, Zero)

hybridNotAboveBaseline(l) ==
  baselinePreconditions(l) =>
    ~Gt(l.hybrid, l.baseline) /\ ~Gt(l.hybrid, l.allElectric)

\* C4 amended: in table mode, when no bin's heat amount is negative, the
\* baseline's gas heating cost is not negative and the non-heating kWh cost no
\* more at the electric-heat rate than at the standard rate (dfcSavings >= 0),
\* the unrounded hybrid cost is never greater than the baseline cost, nor than
\* the all-electric cost.
C4_HybridNotAboveBaseline == hybridNotAboveBaseline(locals)

gasBinBelowBaseline(l, c) ==
  /\ baselinePreconditions(l) /\ gasBinExists(c)
  /\ Lt(l.hybrid, l.baseline) /\ Gt(l.allElectric, l.baseline)

\* an edited snapshot where gas is the cheaper fuel in some bin, the hybrid cost is
\* below the baseline and the all-electric cost above it
C4_Witness == edits > 0 /\ gasBinBelowBaseline(locals, calc)

paybackAbsent(l, c) ==
  /\ Le(l.savingsAll, Zero) => c.paybackAll = Null
  /\ (l.hybrid = Null \/ Le(l.savingsHybrid, Zero)) => c.paybackHybrid = Null

\* C5: for both scenarios, when savings = baseline - scenario cost is <= 0,
\* or the hybrid scenario is null, the reported payback is null.
C5_PaybackAbsent == paybackAbsent(locals, calc)

bothSavingsNotPositive(l, c) ==
  /\ Lt(l.savingsAll, Zero) /\ l.hybrid # Null /\ Lt(l.savingsHybrid, Zero)
  /\ l.net # Zero
  /\ c.paybackAll = Null /\ c.paybackHybrid = Null

\* a snapshot with a non-zero net cost where both scenarios cost more than
\* the baseline
C5_Witness == bothSavingsNotPositive(locals, calc)

paybackOf(net, savings) == ToFixed(Div(net, savings), 1)

positive(a) == IsFinite(a) /\ Gt(a, Zero)

paybackPresent(l, c) ==
  /\ positive(l.savingsAll) =>
       c.paybackAll # Null /\ c.paybackAll = paybackOf(l.net, l.savingsAll)
  /\ (l.hybrid # Null /\ positive(l.savingsHybrid)) =>
       c.paybackHybrid # Null /\ c.paybackHybrid = paybackOf(l.net, l.savingsHybrid)

\* C6: for both scenarios, when savings > 0 (a finite amount) the reported
\* payback is non-null and equals (gross - credits) / savings rounded to one
\* decimal, gross = credits included.
C6_PaybackPresent == paybackPresent(locals, calc)

absentWithNote(c) == c.crossoverTemp = Null /\ c.crossoverNote = NoteProvide

provideNote(l, c) ==
  /\ (l.useCopTable /\ Len(l.table) < 2) => absentWithNote(c)
  /\ ~l.useCopTable => absentWithNote(c)

\* C7: in table mode with a parsed COP table of fewer than 2 entries, and when
\* table mode is off, crossoverTemp is null and crossoverNote is the 'provide
\* a COP table' note.
C7_ProvideTableNote == provideNote(locals, calc)

\* the tolerance the consistency property is tried with, in $/MMBtu
Epsilon == One

costGap(l, t) == AbsQ(Sub(hpCostAt(l, l.table, t), l.costGasPerMMBtu))

crossoverConsistent(l, c) ==
  (c.crossoverTemp # Null /\ IsFinite(c.crossoverTemp)) =>
    Lt(costGap(l, c.crossoverTemp), Epsilon)

between(a, g, b) == (Le(a, g) /\ Ge(b, g)) \/ (Ge(a, g) /\ Le(b, g))

\* the gas cost lies between the heat-pump costs at the grid temperatures of
\* iteration i and of the one before it
stepBrackets(l, tMin, i) ==
  between(hpCostAt(l, l.table, gridT(tMin, prevOf(i))), l.costGasPerMMBtu,
          hpCostAt(l, l.table, gridT(tMin, i)))

\* temp, when finite, is within the rounding of one decimal of the step
nearStep(temp, lo, hi) ==
  IsFinite(temp) => Ge(temp, Sub(lo, Q(1, 20))) /\ Le(temp, Add(hi, Q(1, 20)))

bracketedOn(l, temp, tMin, N) ==
  \E i \in 1..N :
    /\ stepBrackets(l, tMin, i)
    /\ nearStep(temp, gridT(tMin, prevOf(i)), gridT(tMin, i))

crossoverBracketed(l, c) ==
  c.crossoverTemp # Null =>
    bracketedOn(l, c.crossoverTemp, scanMin(l.table),
                gridCount(scanMin(l.table), scanMax(l.table)))

crossoverOffByEpsilon(l, c) ==
  /\ c.crossoverTemp # Null /\ IsFinite(c.crossoverTemp)
  /\ Ge(costGap(l, c.crossoverTemp), Epsilon)
  /\ crossoverBracketed(l, c)

seriesIs(l, s, tMin, N) ==
  /\ Len(s) = N
  /\ \A i \in 1..Len(s) :
       s[i] = [t |-> gridT(tMin, i), hp |-> hpCostAt(l, l.table, gridT(tMin, i)),
               gas |-> l.costGasPerMMBtu]

seriesFull(l, c) ==
  (l.useCopTable /\ Len(l.table) >= 2) =>
    seriesIs(l, c.crossoverSeries, scanMin(l.table),
             gridCount(scanMin(l.table), scanMax(l.table)))

\* C9: in table mode with a COP table of at least 2 entries, the crossover
\* series holds exactly one point (t, hpCost(t), gasCost) for every grid step
\* from tMin to tMax, whether or not a crossover was found.
C9_SeriesCoversDomain == seriesFull(locals, calc)

binHpCost(l, i) == Mul(Div(kWhPerMMBtu, interpCOP(l.table, l.bins[i].x)), l.allInEH)

toHP(l, i) == Le(binHpCost(l, i), l.costGasPerMMBtu)

\* what bin i adds to the cost of the given fuel
binCharge(l, i, fuel, hp) ==
  IF hp /\ fuel = "HP" THEN Mul(binHeat(l, i), binHpCost(l, i))
  ELSE IF ~hp /\ fuel = "Gas" THEN Mul(binHeat(l, i), l.costGasPerMMBtu)
  ELSE Zero

RECURSIVE chargedTo(_, _, _)
chargedTo(l, n, fuel) ==
  IF n = 0 THEN Zero
  ELSE Add(chargedTo(l, n - 1, fuel), binCharge(l, n, fuel, toHP(l, n)))

dispatchedByCost(l, c) ==
  l.useCopTable =>
    /\ Len(c.matrix) = Len(l.bins)
    /\ \A i \in 1..Len(l.bins) :
         c.matrix[i].cheaper = (IF toHP(l, i) THEN "HP" ELSE "Gas")
    /\ l.costHPsum = chargedTo(l, Len(l.bins), "HP")
    /\ l.costGASsum = chargedTo(l, Len(l.bins), "Gas")
    /\ l.hybrid = Add(Add(Mul(l.p.kwhBase, l.allInEH), l.costHPsum), l.costGASsum)

\* C10: each bin's whole heat amount is charged to the heat pump when its cost
\* per MMBtu is <= the gas cost per MMBtu (a tie included) and to gas
\* otherwise; the bin's matrix label names the fuel charged; the hybrid cost
\* is kWhBase * allInEH plus the sum of the charged bin costs.
C10_DispatchByCost == dispatchedByCost(locals, calc)

tieGoesToHP(l, c) ==
  /\ l.useCopTable
  /\ \E i \in 1..Len(l.bins) :
       /\ IsFinite(binHpCost(l, i)) /\ binHpCost(l, i) = l.costGasPerMMBtu
       /\ Gt(binHeat(l, i), Zero) /\ c.matrix[i].cheaper = "HP"
  /\ Gt(l.costHPsum, Zero)

\* a snapshot with a bin whose two costs per MMBtu are equal
C10_Witness == tieGoesToHP(locals, calc)

hybridAbsent(c) ==
  /\ c.hybrid = Null /\ c.savingsHybrid = Null /\ c.paybackHybrid = Null
  /\ c.matrix = <<>>

hybridEntries(c) == {i \in 1..Len(c.chart) : c.chart[i].name = "Hybrid (cheapest)"}

chartShowsHybrid(c, entries) ==
  IF c.hybrid # Null
  THEN Cardinality(entries) = 1 /\ \A i \in entries : c.chart[i].cost = c.hybrid
  ELSE entries = {}

hybridIffTableMode(u, c) ==
  /\ hybridAbsent(c) <=> ~u
  /\ u => c.hybrid # Null
  /\ chartShowsHybrid(c, hybridEntries(c))

\* C11: the hybrid cost, savings and payback are null and the matrix is empty
\* if and only if table mode is off; with table mode on the hybrid cost is
\* non-null for every COP text and bins text; the chart has a hybrid entry
\* exactly when the hybrid cost is non-null.
C11_HybridIffTableMode == hybridIffTableMode(useCopTable, calc)

tableOffNoHybrid(u, c, cop, bins) ==
  /\ ~u /\ hybridAbsent(c) /\ Len(c.chart) = 2
  /\ cop # DEFAULT_COP /\ bins = DEFAULT_BINS

\* table mode switched off over an edited COP text: no hybrid anywhere
C11_WitnessOff == tableOffNoHybrid(useCopTable, calc, copText, binsText)

fallbackKWh(p) == Div(Mul(p.heatMMBtu, kWhPerMMBtu), p.seasonalCOP)

seasonalAllElectric(l) ==
  ~l.useCopTable =>
    /\ l.hpKWh = fallbackKWh(l.p)
    /\ l.allElectric = Mul(Add(l.p.kwhBase, fallbackKWh(l.p)), l.allInEH)

\* C12: with table mode off the all-electric heating kWh are heatMMBtu *
\* 293.071 / seasonalCOP, whatever the COP text and the bins text, and the
\* all-electric cost is (kWhBase + these kWh) * allInEH.
C12_SeasonalAllElectric == seasonalAllElectric(locals)

seasonalOverEditedBins(l, bins) ==
  /\ ~l.useCopTable /\ bins # DEFAULT_BINS /\ Len(l.bins) > 0
  /\ IsFinite(l.hpKWh) /\ Gt(l.hpKWh, Zero)
  /\ l.hpKWh = fallbackKWh(l.p)

\* table mode off over an edited, non-empty bins list
C12_Witness == seasonalOverEditedBins(locals, binsText)

freshResult(c, in, u, cop, bins) == c = Calc(in, u, cop, bins)

\* C13: after any sequence of input events the result is calc applied to the
\* current snapshot alone, so histories ending in the same snapshot show the
\* same result and nothing is carried over from an earlier snapshot.
C13_ResultOfSnapshot == freshResult(calc, inputs, useCopTable, copText, binsText)

backAtStart(n, c, in, u, cop, bins) ==
  /\ n > 1
  /\ in = InitialInputs /\ u /\ cop = DEFAULT_COP /\ bins = DEFAULT_BINS
  /\ freshResult(c, in, u, cop, bins)

\* the start-up snapshot reached again after two events, with the start-up
\* result
C13_Witness == backAtStart(edits, calc, inputs, useCopTable, copText, binsText)

\* ------------------------------------------------------------------------
\* Properties of the helpers
\* ------------------------------------------------------------------------
sortedByX(ps) == \A i \in 1..(Len(ps) - 1) : Le(ps[i].x, ps[i + 1].x)

parsedSorted(cop, bins, l) ==
  /\ sortedByX(parsePairs(cop)) /\ sortedByX(parsePairs(bins))
  /\ sortedByX(l.table) /\ sortedByX(l.bins)

\* C14: for every text, the sequence parsePairs returns has non-decreasing x.
C14_ParsedSorted == parsedSorted(copText, binsText, locals)

\* the items of a text: split at newlines and commas, trimmed, non-empty
itemsOf(text) == SelectSeq(TrimAll(Split(text, {"\n", ","})), NonEmpty)

typedOutOfOrder(raw, l) ==
  /\ Len(l.bins) >= 2 /\ Len(raw) = Len(l.bins)
  /\ \E i \in 1..Len(raw) : \E j \in 1..Len(raw) : i < j /\ Gt(raw[i].x, raw[j].x)
  /\ sortedByX(l.bins)

\* a bins list typed with a larger x before a smaller one
C14_Witness == typedOutOfOrder(Pairs(itemsOf(binsText)), locals)

\* a side of an item parses to a finite number: non-empty text that Number
\* reads as one
sideParses(side) == Trim(side) # "" /\ IsFinite(Number(Trim(side)))

\* an item with a colon whose x side and y side (the first two parts) parse
wellFormedParts(parts) ==
  Len(parts) >= 2 /\ sideParses(parts[1]) /\ sideParses(parts[2])

wellFormed(item) == wellFormedParts(Split(item, {":"}))

keepsWellFormedOnly(items, out) ==
  /\ Len(out) = Cardinality({i \in 1..Len(items) : wellFormed(items[i])})
  /\ \A i \in 1..Len(items) :
       wellFormed(items[i]) => \E j \in 1..Len(out) : out[j] = PairOf(items[i])

parsedWellFormed(bins, l) ==
  /\ keepsWellFormedOnly(itemsOf(bins), parsePairs(bins))
  /\ Len(l.bins) = Len(parsePairs(bins))

\* C15: for every text parsePairs returns a sequence that holds an entry for
\* each well-formed item and none for an item without a colon, with an empty
\* side or with a non-numeric side.
C15_ParsedWellFormedOnly == parsedWellFormed(binsText, locals)

rowAtDefaultCop(l, row) ==
  /\ row.cop = Q(22, 10)
  /\ row.hpCost = ToFixed(Mul(Div(kWhPerMMBtu, Q(22, 10)), l.allInEH), 2)

emptyTableDefaultCop(l, c) ==
  (l.useCopTable /\ Len(l.table) = 0) =>
    /\ \A i \in 1..Len(l.bins) : interpCOP(l.table, l.bins[i].x) = Q(22, 10)
    /\ \A i \in 1..Len(c.matrix) : rowAtDefaultCop(l, c.matrix[i])
    /\ Len(c.matrix) = Len(l.bins)

\* C16: interpCOP returns 2.2 for every temperature when the table is empty,
\* so in table mode with a COP text of zero entries every bin is costed at
\* COP 2.2.
C16_EmptyTableDefaultCop == emptyTableDefaultCop(locals, calc)

binsAtDefaultCop(l, c) ==
  /\ l.useCopTable /\ Len(l.table) = 0 /\ Len(c.matrix) >= 2
  /\ c.matrix[1].t # c.matrix[2].t
  /\ rowAtDefaultCop(l, c.matrix[1]) /\ rowAtDefaultCop(l, c.matrix[2])

\* two bins at different temperatures costed under an empty COP table
C16_Witness == binsAtDefaultCop(locals, calc)

someWeight(raw) == Len(raw) > 0 /\ \E i \in 1..Len(raw) : raw[i].y # Zero

sumsTo100(raw, l) == someWeight(raw) => SumY(l.bins) = I(100)

\* C18 as stated: for every non-empty bins list whose weights are not all
\* zero, the normalized weights sum to 100.
C18_NormalizedSumAlways == sumsTo100(parsePairs(binsText), locals)

sumsTo100WhenTotal(raw, l) ==
  (Len(raw) > 0 /\ SumY(raw) # Zero) => SumY(l.bins) = I(100)

\* C18 amended: for every non-empty bins list whose weights have a non-zero
\* total, the normalized weights sum to 100.
C18_NormalizedSum == sumsTo100WhenTotal(parsePairs(binsText), locals)

mixedSigns(raw, l) ==
  /\ Len(raw) >= 2 /\ SumY(raw) # Zero /\ SumY(raw) # I(100)
  /\ \E i \in 1..Len(raw) : Lt(raw[i].y, Zero)
  /\ SumY(l.bins) = I(100)

\* a bins list with a negative and a positive weight and a non-zero total
C18_Witness == mixedSigns(parsePairs(binsText), locals)

\* temperatures at which calc calls interpCOP: the bin temperatures and, when
\* the scan runs, the two ends of its domain
queryTemps(l) ==
  {l.bins[i].x : i \in 1..Len(l.bins)}
    \cup (IF Len(l.table) > 1 THEN {scanMin(l.table), scanMax(l.table)} ELSE {})

flatBelow(table, t) == Le(t, table[1].x) => interpCOP(table, t) = table[1].y

flatAbove(table, t) ==
  Ge(t, table[Len(table)].x) => interpCOP(table, t) = table[Len(table)].y

flatOutside(l) ==
  (l.useCopTable /\ Len(l.table) > 0) =>
    \A t \in queryTemps(l) : flatBelow(l.table, t) /\ flatAbove(l.table, t)

\* C17 as stated: for every non-empty table and every t, interpCOP returns
\* table[0].y if t <= table[0].x and table[last].y if t >= table[last].x.
C17_FlatOutsideAlways == flatOutside(locals)

flatStrictlyAbove(table, t) ==
  (Ge(t, table[Len(table)].x) /\ Gt(t, table[1].x)) =>
    interpCOP(table, t) = table[Len(table)].y

flatOutsideLowerFirst(l) ==
  (l.useCopTable /\ Len(l.table) > 0) =>
    \A t \in queryTemps(l) : flatBelow(l.table, t) /\ flatStrictlyAbove(l.table, t)

\* C17 amended: for every non-empty table and every t, interpCOP returns
\* table[0].y if t <= table[0].x, and table[last].y if t >= table[last].x and
\* t > table[0].x.
C17_FlatOutside == flatOutsideLowerFirst(locals)

atBothEnds(l, t) ==
  /\ Len(l.table) >= 2 /\ l.table[1].x = t /\ l.table[Len(l.table)].x = t
  /\ l.table[1].y # l.table[Len(l.table)].y
  /\ interpCOP(l.table, t) = l.table[1].y

\* a bin temperature equal to the x of every entry of a table whose first and
\* last y differ
C17_Witness ==
  useCopTable /\ \E i \in 1..Len(locals.bins) : atBothEnds(locals, locals.bins[i].x)

\* ------------------------------------------------------------------------
\* Properties of the crossover scan
\* ------------------------------------------------------------------------
diffOf(pt) == Sub(pt.hp, pt.gas)

\* the two diffs have opposite sign or one of them is zero
crosses(prevDiff, diff) == between(prevDiff, Zero, diff)

\* the zero crossing of the line through (prevT, prevDiff) and (t, diff)
zeroCrossing(prevT, prevDiff, t, diff) ==
  IF Lt(AbsQ(Sub(diff, prevDiff)), Q(1, 1000000000)) THEN prevT
  ELSE Add(prevT, Mul(Div(Neg(prevDiff), Sub(diff, prevDiff)), Sub(t, prevT)))

reportedFrom(temp, prevT, t, unrounded) ==
  /\ Le(prevT, unrounded) /\ Le(unrounded, t)
  /\ temp = ToFixed(unrounded, 1)

crossoverOfPair(temp, prev, cur) ==
  /\ crosses(diffOf(prev), diffOf(cur))
  /\ reportedFrom(temp, prev.t, cur.t,
                  zeroCrossing(prev.t, diffOf(prev), cur.t, diffOf(cur)))

noCrossBefore(s, n) ==
  \A i \in 1..(n - 1) : ~crosses(diffOf(s[prevOf(i)]), diffOf(s[i]))

firstCrossing(temp, s, n) ==
  /\ n >= 1
  /\ crossoverOfPair(temp, s[prevOf(n)], s[n])
  /\ noCrossBefore(s, n)

crossoverIsFirstCrossing(l, c) ==
  (l.useCopTable /\ Len(l.table) >= 2 /\ c.crossoverTemp # Null) =>
    firstCrossing(c.crossoverTemp, c.crossoverSeries, Len(c.crossoverSeries))

\* C19: in table mode with at least 2 COP entries a reported crossover comes
\* from the first consecutive grid pair (prevT, t) whose diffs have opposite
\* sign or include a zero: unrounded it is prevT + (-prevDiff / (diff -
\* prevDiff)) * (t - prevT), or prevT when |diff - prevDiff| < 1e-9, it lies
\* in [prevT, t], and no earlier pair crosses.
C19_FirstCrossing == crossoverIsFirstCrossing(locals, calc)

unitSteps(s) == \A i \in 1..(Len(s) - 1) : s[i + 1].t = Add(s[i].t, One)

visits(temp, s, tMin, tMax) ==
  /\ Len(s) >= 1 /\ s[1].t = tMin /\ unitSteps(s)
  /\ temp = Null => s[Len(s)].t = tMax

scansWholeDomain(l, c) ==
  (l.useCopTable /\ Len(l.table) >= 2) =>
    visits(c.crossoverTemp, c.crossoverSeries, scanMin(l.table), scanMax(l.table))

\* C20: for every COP table with at least 2 entries the scan starts at tMin =
\* min(-20, lowest x), advances by one degree and, unless a crossover ends
\* it, visits tMax = max(65, highest x) last.
C20_ScanReachesTMax == scansWholeDomain(locals, calc)

noSignChange(s) ==
  \A i \in 1..Len(s) : ~signChange(diffOf(s[prevOf(i)]), diffOf(s[i]))

allBelow(s) == \A i \in 1..Len(s) : Lt(diffOf(s[i]), Zero)

allAbove(s) == \A i \in 1..Len(s) : Gt(diffOf(s[i]), Zero)

noteOfSeries(s) ==
  IF allBelow(s) THEN "HP cheaper at all temps"
  ELSE IF allAbove(s) THEN "Gas cheaper at all temps"
  ELSE "Crossover outside modeled range"

noteByEveryPoint(l, c) ==
  (l.useCopTable /\ Len(l.table) >= 2 /\ noSignChange(c.crossoverSeries)) =>
    (c.crossoverTemp = Null /\ c.crossoverNote = noteOfSeries(c.crossoverSeries))

tempOrNote(c) == (c.crossoverTemp # Null) # (c.crossoverNote # "")

\* C21: in table mode with at least 2 COP entries, when no consecutive grid
\* pair changes sign, crossoverTemp is null and the note is 'HP cheaper at all
\* temps' if diff < 0 at every scanned grid point, 'Gas cheaper at all temps'
\* if diff > 0 at every scanned grid point and 'Crossover outside modeled
\* range' otherwise; in every result exactly one of {crossoverTemp non-null,
\* crossoverNote non-empty} holds.
C21_NoteByEveryPoint == noteByEveryPoint(locals, calc) /\ tempOrNote(calc)

\* the kWh the heat pump draws for bin i
binHpKWh(l, i) == Mul(binHeat(l, i), Div(kWhPerMMBtu, interpCOP(l.table, l.bins[i].x)))

\* what bin i adds to the hybrid split: kWh when the heat pump serves it,
\* MMBtu when gas does
binSplit(l, i, fuel, hp) ==
  IF hp /\ fuel = "HP" THEN binHpKWh(l, i)
  ELSE IF ~hp /\ fuel = "Gas" THEN binHeat(l, i)
  ELSE Zero

RECURSIVE splitTo(_, _, _)
splitTo(l, n, fuel) ==
  IF n = 0 THEN Zero
  ELSE Add(splitTo(l, n - 1, fuel), binSplit(l, n, fuel, toHP(l, n)))

hybridSplit(l) ==
  l.useCopTable =>
    /\ l.hybridHPkWh = splitTo(l, Len(l.bins), "HP")
    /\ l.hybridGasMMBtu = splitTo(l, Len(l.bins), "Gas")

\* C22: in table mode hybridHPkWh is the sum over the HP-dispatched bins of
\* binMMBtu * 293.071 / COP(bin.x) and hybridGasMMBtu is the sum of binMMBtu
\* over the gas-dispatched bins.
C22_HybridSplit == hybridSplit(locals)

\* the position of the first ':' of item at or after i, 0 when there is none
RECURSIVE firstColon(_, _)
firstColon(item, i) ==
  IF i > Len(item) THEN 0
  ELSE IF SubSeq(item, i, i) = ":" THEN i
  ELSE firstColon(item, i + 1)

\* the pair an item denotes when it is cut at position k, its first ':'
cutAt(item, k) ==
  [x |-> Number(Trim(SubSeq(item, 1, k - 1))),
   y |-> IF k = 0 THEN NaN ELSE Number(Trim(SubSeq(item, k + 1, Len(item))))]

cutAtFirstColon(items) ==
  [i \in 1..Len(items) |-> cutAt(items[i], firstColon(items[i], 1))]

splitsAtFirstColon(text, l) ==
  /\ parsePairs(text) = SortByX(SelectSeq(cutAtFirstColon(itemsOf(text)), FinitePair), <<>>)
  /\ Len(l.bins) = Len(parsePairs(text))

\* C23: each item is split at its first ':' only, the x text being what
\* precedes it and the y text everything after it, so an item with a second
\* ':' such as '1:2:3' (y text '2:3') does not parse and leaves no entry.
C23_SplitAtFirstColon == splitsAtFirstColon(binsText, locals)

sameCoordinates(raw, out) ==
  Len(out) = Len(raw) /\ \A i \in 1..Len(raw) : out[i].x = raw[i].x

allZeroWeights(out) == \A i \in 1..Len(out) : out[i].y = Zero

zeroTotalGivesZeros(raw, out) ==
  SumY(raw) = Zero =>
    (out = scaleBins(raw, One) /\ sameCoordinates(raw, out) /\ allZeroWeights(out))

\* C25: whenever the input weights sum to zero, lists whose positive and
\* negative weights cancel included, the normalizer divides by 1 and every
\* resulting weight is 0; the output has the input's length, x values and
\* order.
C25_ZeroTotalGivesZeros == zeroTotalGivesZeros(parsePairs(binsText), locals.bins)

strictlyIncreasingX(table) ==
  \A i \in 1..(Len(table) - 1) : Lt(table[i].x, table[i + 1].x)

hitsSamples(table) ==
  \A i \in 1..Len(table) : interpCOP(table, table[i].x) = table[i].y

exactAtSamples(l) == strictlyIncreasingX(l.table) => hitsSamples(l.table)

\* C24: for every COP table with strictly increasing x the interpolator
\* returns table[i].y at t = table[i].x, for every i: the curve has no jump
\* at a sample point.
C24_ExactAtSamples == exactAtSamples(locals)

scannedAt(l, s, x, y) ==
  \E j \in 1..Len(s) :
    s[j].t = x /\ s[j].hp = Mul(Div(kWhPerMMBtu, y), l.allInEH)

innerSampleScanned(l, c) ==
  /\ l.useCopTable /\ Len(l.table) >= 3 /\ strictlyIncreasingX(l.table)
  /\ \E i \in 2..(Len(l.table) - 1) :
       scannedAt(l, c.crossoverSeries, l.table[i].x, l.table[i].y)

\* a table of three samples whose middle x is a scanned grid point
C24_Witness == innerSampleScanned(locals, calc)

\* a === b on numbers: NaN equals nothing
Same(a, b) == ~IsNaN(a) /\ ~IsNaN(b) /\ a = b

dfcPart(l) == Div(Mul(l.p.kwhBase, Sub(l.p.dfcNon, l.p.dfcEH)), I(100))

fuelSwitchPart(l) == Sub(l.gasHeatCost, l.hpHeatCost)

savingsDecompose(l, c) ==
  /\ Same(Sub(l.baseline, l.allElectric), Add(l.dfcSavings, fuelSwitchPart(l)))
  /\ Same(l.dfcSavings, dfcPart(l))
  /\ c.fuelSwitchSavings = MathRound(fuelSwitchPart(l))

\* C26: in both modes and for every input the unrounded baseline cost minus
\* the unrounded all-electric cost equals dfcSavings + fuelSwitchSavings, with
\* dfcSavings = kWhBase * (dfcNon - dfcEH) / 100 and fuelSwitchSavings =
\* gasHeatCost - hpHeatCost, which the result holds unclamped (negative when
\* heat-pump heat costs more than gas heat).
C26_SavingsDecompose == savingsDecompose(locals, calc)

\* the heat of bin i when the given fuel serves it
binHeatBy(l, i, fuel, hp) ==
  IF hp = (fuel = "HP") THEN binHeat(l, i) ELSE Zero

RECURSIVE heatBy(_, _, _)
heatBy(l, n, fuel) ==
  IF n = 0 THEN Zero
  ELSE Add(heatBy(l, n - 1, fuel), binHeatBy(l, n, fuel, toHP(l, n)))

allHeatServed(l) ==
  /\ Same(Add(heatBy(l, Len(l.bins), "HP"), heatBy(l, Len(l.bins), "Gas")), l.p.heatMMBtu)
  /\ l.hybridGasMMBtu = heatBy(l, Len(l.bins), "Gas")

noHeatServed(l) ==
  /\ \A i \in 1..Len(l.bins) : binHeat(l, i) = Zero
  /\ Same(l.allElectric, Mul(l.p.kwhBase, l.allInEH))
  /\ Same(l.hybrid, Mul(l.p.kwhBase, l.allInEH))

heatConserved(raw, l) ==
  l.useCopTable =>
    IF Len(raw) > 0 /\ SumY(raw) # Zero THEN allHeatServed(l) ELSE noHeatServed(l)

\* C27: in table mode with bins whose weights have a non-zero sum the
\* per-bin heat amounts sum to heatMMBtu, so the heat served by the heat pump
\* plus the heat served by gas in the hybrid scenario is heatMMBtu; when the
\* bins text parses to no entries or the weights sum to zero no heat is
\* served and allElectric = hybrid = kWhBase * allInEH.
C27_HeatConserved == heatConserved(parsePairs(binsText), locals)

nonDecreasingY(table) ==
  \A i \in 1..(Len(table) - 1) : Le(table[i].y, table[i + 1].y)

\* the scan ended at a crossover between its last two grid points, with gas
\* the cheaper fuel at the lower one
gasToHPStep(temp, s, n) == temp # Null /\ n >= 2 /\ Gt(diffOf(s[prevOf(n)]), Zero)

labelsAround(matrix, p, q) ==
  \A i \in 1..Len(matrix) :
    /\ Le(matrix[i].t, p) => matrix[i].cheaper = "Gas"
    /\ Ge(matrix[i].t, q) => matrix[i].cheaper = "HP"

labelsSplitOn(matrix, s, n) == labelsAround(matrix, s[prevOf(n)].t, s[n].t)

labelsFollowCrossover(l, c) ==
  (/\ l.useCopTable /\ Len(l.table) >= 2 /\ nonDecreasingY(l.table)
   /\ Gt(l.allInEH, Zero)
   /\ gasToHPStep(c.crossoverTemp, c.crossoverSeries, Len(c.crossoverSeries))) =>
    labelsSplitOn(c.matrix, c.crossoverSeries, Len(c.crossoverSeries))

\* C28 as stated: with a COP table of at least 2 entries whose COP does not
\* decrease with temperature, a positive electric-heat rate and a crossover
\* found between consecutive grid points p and p + 1 with diff(p) > 0, every
\* bin with temperature <= p is labelled 'Gas' and every bin with temperature
\* >= p + 1 is labelled 'HP'.
C28_LabelsFollowCrossoverAlways == labelsFollowCrossover(locals, calc)

positiveY(table) == \A i \in 1..Len(table) : Gt(table[i].y, Zero)

labelsFollowPositiveCop(l, c) ==
  positiveY(l.table) => labelsFollowCrossover(l, c)

\* C28 amended: with a COP table of at least 2 entries whose COP is positive
\* and does not decrease with temperature, a positive electric-heat rate and
\* a crossover found between consecutive grid points p and p + 1 with
\* diff(p) > 0, every bin with temperature <= p is labelled 'Gas' and every
\* bin with temperature >= p + 1 is labelled 'HP'.
C28_LabelsFollowCrossover == labelsFollowPositiveCop(locals, calc)

bothSides(matrix, p, q) ==
  /\ \E i \in 1..Len(matrix) : Le(matrix[i].t, p) /\ matrix[i].cheaper = "Gas"
  /\ \E i \in 1..Len(matrix) : Ge(matrix[i].t, q) /\ matrix[i].cheaper = "HP"

binsOnBothSides(l, c, s, n) ==
  /\ l.useCopTable /\ Len(l.table) >= 2 /\ nonDecreasingY(l.table) /\ positiveY(l.table)
  /\ Gt(l.allInEH, Zero) /\ gasToHPStep(c.crossoverTemp, s, n)
  /\ bothSides(c.matrix, s[prevOf(n)].t, s[n].t)

\* an edited snapshot with a gas-to-HP crossover and a bin on each side of it
C28_Witness ==
  edits > 0 /\ binsOnBothSides(locals, calc, calc.crossoverSeries, Len(calc.crossoverSeries))

\* the temperatures at which a snapshot interpolates: bin temperatures and
\* the points of the crossover series
interpolatedAt(l, c) ==
  queryTemps(l) \cup {c.crossoverSeries[j].t : j \in 1..Len(c.crossoverSeries)}

withinYRange(table, y) ==
  /\ \E i \in 1..Len(table) : Le(table[i].y, y)
  /\ \E i \in 1..Len(table) : Ge(table[i].y, y)

\* the first adjacent pair (i, i + 1) with table[i].x <= t <= table[i + 1].x
firstPair(table, t) ==
  SetMin({i \in 1..(Len(table) - 1) : Ge(t, table[i].x) /\ Le(t, table[i + 1].x)})

withinPair(table, t, i, y) ==
  /\ Sub(table[i + 1].x, table[i].x) # Zero
  /\ between(table[i].y, y, table[i + 1].y)

strictlyInside(table, t) == Gt(t, table[1].x) /\ Lt(t, table[Len(table)].x)

interpBoundedAt(table, t) ==
  /\ IsFinite(interpCOP(table, t))
  /\ withinYRange(table, interpCOP(table, t))
  /\ strictlyInside(table, t) =>
       withinPair(table, t, firstPair(table, t), interpCOP(table, t))

interpBounded(l, c) ==
  Len(l.table) > 0 => \A t \in interpolatedAt(l, c) : interpBoundedAt(l.table, t)

\* C29: for every non-empty sorted table and every t the interpolated COP
\* lies between the smallest and the largest y of the table; for t strictly
\* inside the x range it lies between the y values of the first adjacent
\* pair (a, b) with a.x <= t <= b.x; the division never has a zero
\* denominator, tables with duplicate x included.
C29_InterpBounded == interpBounded(locals, calc)

offSampleInside(l, c) ==
  /\ l.useCopTable /\ Len(l.table) >= 2
  /\ \E t \in interpolatedAt(l, c) :
       /\ strictlyInside(l.table, t)
       /\ \A i \in 1..Len(l.table) : l.table[i].x # t
       /\ l.table[firstPair(l.table, t)].y # l.table[firstPair(l.table, t) + 1].y

\* an edited snapshot that interpolates strictly between two samples of
\* different COP
C29_Witness == edits > 0 /\ offSampleInside(locals, calc)

startResult == Calc(InitialInputs, TRUE, DEFAULT_COP, DEFAULT_BINS)

\* a step that ends a reset leaves the start-up snapshot and its result
restoresStartUp ==
  lastReset' # "" =>
    (atStartUp(inputs', useCopTable', copText', binsText') /\ calc' = startResult)

changedFields == {k \in Fields : inputs'[k] # inputs[k]}

\* a step other than a reset that changes a field text changes that one
\* field only
editsOneField ==
  (lastReset' = "" /\ inputs' # inputs) =>
    (Cardinality(changedFields) = 1 /\ UNCHANGED <<useCopTable, copText, binsText>>)

====
